---- MODULE Spec2Model ----
(***************************************************************************)
(* A model of the mobi package: the trip-data combiner (data_processor.py),*)
(* the file fetcher and the bundle restorer (data_downloader.py) and the   *)
(* GBFS client's feed-URL cache (gbfs.py).                                 *)
(*                                                                         *)
(* One behaviour runs one scenario, chosen in Init by the variable op:     *)
(*   "combine"  one call of combine_trip_data                              *)
(*   "download" calls of download_all_trip_data on one output directory    *)
(*   "restore"  calls of restore_trip_data_from_bundle on one raw directory*)
(*   "gbfs"     calls on one GBFSClient                                    *)
(* The variables of the other scenarios keep their idle values.            *)
(***************************************************************************)
EXTENDS Integers, Sequences, FiniteSets, TLC

VARIABLES
    op,              \* the scenario of this behaviour
    \* ---- combine_trip_data ----
    disk,            \* content of each trip-data file on disk
    file_paths,      \* the argument of combine_trip_data
    cI,              \* loop position of combine_trip_data (1-based); 0 = not entered
    all_dataframes,  \* the frames read so far
    cOutcome,        \* "idle" | "running" | "returned" | "raised"
    cExc,            \* class of the exception that left combine_trip_data
    combined_df,     \* the returned frame
    \* ---- download_all_trip_data ----
    outDir,          \* output directory: state of the file of each filename
    data_files,      \* what get_available_data_files returned, in page order
    overwrite,       \* the overwrite argument of the running call
    dI,              \* loop position of download_all_trip_data (1-based)
    downloaded_files,\* the list the call builds and returns
    dOutcome,        \* "idle" | "running" | "returned" | "raised"
    dRun,            \* number of calls started
    dStartDir,       \* history: outDir when the running call started
    dLog,            \* history: what happened to each descriptor visited
    \* ---- restore_trip_data_from_bundle ----
    raw_dir,         \* the raw_dir argument, as path segments
    rawFiles,        \* files below raw_dir: relative path -> content
    zips,            \* directory -> the bundle archive stored there
    rOutcome,        \* "idle" | "returned" | "raised", of the last call
    rResult,         \* the list the last call returned (paths below raw_dir)
    rExc,            \* class of the exception the last call raised
    rCalls,          \* number of calls made
    rLast,           \* history: what the last call did
    rPrev,           \* history: outcome and result of the call before
    \* ---- GBFSClient ----
    feed_urls,       \* self._feed_urls: None or the name -> URL mapping
    server,          \* what the discovery URL answers now
    gCalls,          \* number of client calls made
    gLast,           \* the last call, and its result or exception
    gRequests,       \* history: the URLs the last call requested, in order
    gFirst,          \* history: the mapping of the first successful load
    gReloads,        \* history: discovery requests made with the cache set
    \* ---- standardize_trip_schema on one column name ----
    hName,           \* a column name of the source file
    hOut,            \* the name after line 92
    hState,          \* "idle" | "given" | "normalized"
    \* ---- get_available_data_files ----
    page,            \* what base_url serves: nothing, or a list of anchors
    sOutcome,        \* "idle" | "returned" | "raised"
    sExc,            \* class of the exception raised
    sResult,         \* the list returned
    \* ---- save_to_parquet ----
    vParent,         \* what output_path.parent is
    vFrame,          \* the frame, by what to_parquet makes of it
    vCodec,          \* the compression argument
    vDiskFull,       \* the disk fills up while the file is written
    vFile,           \* the file at output_path
    vPc,             \* "idle" | "start" | "try" | "returned" | "raised"
    vExc             \* class of the exception raised

combineVars == <<disk, file_paths, cI, all_dataframes, cOutcome, cExc, combined_df>>

downloadVars == <<outDir, data_files, overwrite, dI, downloaded_files, dOutcome,
                  dRun, dStartDir, dLog>>

restoreVars == <<raw_dir, rawFiles, zips, rOutcome, rResult, rExc, rCalls,
                 rLast, rPrev>>

gbfsVars == <<feed_urls, server, gCalls, gLast, gRequests, gFirst, gReloads>>

sanitizeVars == <<hName, hOut, hState>>

scrapeVars == <<page, sOutcome, sExc, sResult>>

saveVars == <<vParent, vFrame, vCodec, vDiskFull, vFile, vPc, vExc>>

extraVars == <<sanitizeVars, scrapeVars, saveVars>>

vars == <<op, combineVars, downloadVars, restoreVars, gbfsVars, extraVars>>

\* ------------------------------------------------------------------
\* Bounds
\* ------------------------------------------------------------------
MaxFiles == 2        \* longest file_paths list
MaxDescriptors == 2  \* most download links on the scraped page
MaxRuns == 2         \* calls of download_all_trip_data in one behaviour
MaxCalls == 2        \* calls of restore_trip_data_from_bundle in one behaviour
MaxClientCalls == 3  \* calls on the GBFSClient in one behaviour
MaxNameLen == 3      \* longest enumerated column name
MaxAnchors == 2      \* most anchors on the scraped page

\* ------------------------------------------------------------------
\* Strings as sequences of characters
\* ------------------------------------------------------------------
UpperChars == <<"A", "B", "C", "D", "E", "I", "K", "P", "R", "S", "T", "U">>
LowerChars == <<"a", "b", "c", "d", "e", "i", "k", "p", "r", "s", "t", "u">>

\* str.lower on one character
LowerChar(c) ==
    IF \E i \in 1..Len(UpperChars) : UpperChars[i] = c
    THEN LowerChars[CHOOSE i \in 1..Len(UpperChars) : UpperChars[i] = c]
    ELSE c

StrLower(s) == [i \in 1..Len(s) |-> LowerChar(s[i])]

\* str.strip: drop leading and trailing whitespace
RECURSIVE LStrip(_)
LStrip(s) == IF s # <<>> /\ Head(s) = " " THEN LStrip(Tail(s)) ELSE s

RECURSIVE RStrip(_)
RStrip(s) ==
    IF s # <<>> /\ s[Len(s)] = " " THEN RStrip(SubSeq(s, 1, Len(s) - 1)) ELSE s

StrStrip(s) == RStrip(LStrip(s))

\* str.replace(" ", "_")
StrReplaceSpace(s) == [i \in 1..Len(s) |-> IF s[i] = " " THEN "_" ELSE s[i]]

\* Path.suffix.lower() over the suffixes in use
SuffixLower(suffix) ==
    CASE suffix = ".CSV" -> ".csv"
      [] suffix = ".ZIP" -> ".zip"
      [] suffix = ".TXT" -> ".txt"
      [] OTHER -> suffix

\* Path.name of a path record
PathName(p) == <<p.stem, p.suffix>>

\* ------------------------------------------------------------------
\* Column names of standardize_trip_schema, as character sequences
\* ------------------------------------------------------------------
col_departure == <<"d", "e", "p", "a", "r", "t", "u", "r", "e">>
col_departure_time ==
    <<"d", "e", "p", "a", "r", "t", "u", "r", "e", "_", "t", "i", "m", "e">>
col_return == <<"r", "e", "t", "u", "r", "n">>
col_return_time == <<"r", "e", "t", "u", "r", "n", "_", "t", "i", "m", "e">>
col_departure_station ==
    <<"d", "e", "p", "a", "r", "t", "u", "r", "e", "_", "s", "t", "a", "t",
      "i", "o", "n">>
col_departure_station_name ==
    <<"d", "e", "p", "a", "r", "t", "u", "r", "e", "_", "s", "t", "a", "t",
      "i", "o", "n", "_", "n", "a", "m", "e">>
col_return_station ==
    <<"r", "e", "t", "u", "r", "n", "_", "s", "t", "a", "t", "i", "o", "n">>
col_return_station_name ==
    <<"r", "e", "t", "u", "r", "n", "_", "s", "t", "a", "t", "i", "o", "n",
      "_", "n", "a", "m", "e">>
col_covered_distance ==
    <<"c", "o", "v", "e", "r", "e", "d", "_", "d", "i", "s", "t", "a", "n",
      "c", "e">>
col_covered_distance_km ==
    <<"c", "o", "v", "e", "r", "e", "d", "_", "d", "i", "s", "t", "a", "n",
      "c", "e", "_", "k", "m">>
col_duration == <<"d", "u", "r", "a", "t", "i", "o", "n">>
col_duration_sec ==
    <<"d", "u", "r", "a", "t", "i", "o", "n", "_", "s", "e", "c">>
col_stopover == <<"s", "t", "o", "p", "o", "v", "e", "r">>
col_has_stopover ==
    <<"h", "a", "s", "_", "s", "t", "o", "p", "o", "v", "e", "r">>
col_bike == <<"b", "i", "k", "e">>
col_bike_id == <<"b", "i", "k", "e", "_", "i", "d">>
col_account == <<"a", "c", "c", "o", "u", "n", "t">>
col_account_id == <<"a", "c", "c", "o", "u", "n", "t", "_", "i", "d">>
col_source_file == <<"s", "o", "u", "r", "c", "e", "_", "f", "i", "l", "e">>

\* ------------------------------------------------------------------
\* data_processor.py
\* ------------------------------------------------------------------
\* Exception classes that matter to the except clauses
DataProcessorError == "DataProcessorError"

\* The trip-data paths and what a file can hold.  A CSV body is its header
\* (the source column names) and its number of data rows; a ZIP holds
\* members, each with a member name ending in ".csv" or not.
CombinePaths ==
    { [dir |-> "raw", stem |-> "a", suffix |-> ".csv"],
      [dir |-> "raw", stem |-> "b", suffix |-> ".csv"],
      [dir |-> "old", stem |-> "c", suffix |-> ".ZIP"] }

HeaderPlain == << <<"D", "e", "p", "a", "r", "t", "u", "r", "e">>,
                  <<" ", "B", "i", "k", "e", " ">> >>
HeaderMapped == << col_bike, col_bike_id, <<"T", "r", "i", "p", " ", "I", "D">> >>
HeaderTwoDepartures == << <<"D", "e", "p", "a", "r", "t", "u", "r", "e">>,
                          col_departure >>
HeaderTwoBikes == << <<"B", "i", "k", "e">>, <<"b", "i", "k", "e", " ">> >>

CsvBodies ==
    { [kind |-> "csv", header |-> HeaderPlain, nrows |-> 2,
       encoding |-> "utf-8"],
      [kind |-> "csv", header |-> HeaderMapped, nrows |-> 1,
       encoding |-> "utf-8"],
      [kind |-> "csv", header |-> HeaderTwoDepartures, nrows |-> 1,
       encoding |-> "utf-8"],
      [kind |-> "csv", header |-> HeaderTwoBikes, nrows |-> 1,
       encoding |-> "utf-8"],
      \* bytes that are invalid as UTF-8 and valid as Latin-1
      [kind |-> "csv", header |-> HeaderPlain, nrows |-> 2,
       encoding |-> "latin-1"] }

Garbage == [kind |-> "garbage"]

ZipBodies ==
    { [kind |-> "zip", members |-> <<>>],
      [kind |-> "zip",
       members |-> << [csv |-> FALSE, body |-> Garbage],
                      [csv |-> TRUE,
                       body |-> [kind |-> "csv", header |-> HeaderPlain,
                                 nrows |-> 1, encoding |-> "utf-8"]],
                      [csv |-> TRUE,
                       body |-> [kind |-> "csv", header |-> HeaderMapped,
                                 nrows |-> 1, encoding |-> "utf-8"]] >>] }

\* What a path of a given suffix can hold in this model
ContentsFor(p) ==
    IF SuffixLower(p.suffix) = ".zip" THEN ZipBodies \cup {Garbage}
    ELSE CsvBodies \cup {Garbage}

\* pd.read_csv is called without an encoding argument: UTF-8 only
ReadEncodings == <<"utf-8">>

\* pd.read_csv: a frame with the header's columns and one row per data row,
\* or an exception when the bytes do not parse or do not decode
ReadCsv(body, origin) ==
    IF body.kind # "csv"
    THEN [ok |-> FALSE, exc |-> "ParserError", encodings |-> ReadEncodings]
    ELSE IF \A k \in 1..Len(ReadEncodings) : ReadEncodings[k] # body.encoding
    THEN [ok |-> FALSE, exc |-> "UnicodeDecodeError",
          encodings |-> ReadEncodings]
    ELSE [ok |-> TRUE,
          df |-> [columns |-> body.header,
                  rows |-> [i \in 1..body.nrows |->
                               [origin |-> origin, line |-> i,
                                source_file |-> <<>>]]],
          encodings |-> ReadEncodings]

\* read_trip_data_file: every exception of the body, the inner
\* DataProcessorError included, leaves as DataProcessorError
read_trip_data_file(file_path, content) ==
    LET raw ==
          IF SuffixLower(file_path.suffix) = ".zip"
          THEN IF content.kind # "zip"
               THEN [ok |-> FALSE, exc |-> "BadZipFile", encodings |-> <<>>]
               ELSE LET csv_files ==
                          SelectSeq(content.members, LAMBDA m : m.csv)
                    IN  IF csv_files = <<>>
                        THEN [ok |-> FALSE, exc |-> DataProcessorError,
                              encodings |-> <<>>]
                        ELSE ReadCsv(csv_files[1].body, file_path)
          ELSE ReadCsv(content, file_path)
    IN  IF raw.ok THEN raw
        ELSE [ok |-> FALSE, exc |-> DataProcessorError, cause |-> raw.exc,
              encodings |-> raw.encodings]

\* column_mappings, in the order of the dict
column_mappings ==
    << <<col_departure, col_departure_time>>,
       <<col_return, col_return_time>>,
       <<col_departure_station, col_departure_station_name>>,
       <<col_return_station, col_return_station_name>>,
       <<col_covered_distance, col_covered_distance_km>>,
       <<col_duration, col_duration_sec>>,
       <<col_stopover, col_has_stopover>>,
       <<col_bike, col_bike_id>>,
       <<col_account, col_account_id>> >>

InColumns(name, columns) == \E i \in 1..Len(columns) : columns[i] = name

\* the number of columns carrying the name
ColumnCount(name, columns) ==
    Cardinality({i \in 1..Len(columns) : columns[i] = name})

\* df.columns.str.strip().str.lower().str.replace(" ", "_")
NormalizeColumns(columns) ==
    [i \in 1..Len(columns) |->
        StrReplaceSpace(StrLower(StrStrip(columns[i])))]

\* df.rename(columns={old_name: new_name}) renames every column of that name
RenameColumn(columns, old_name, new_name) ==
    [i \in 1..Len(columns) |->
        IF columns[i] = old_name THEN new_name ELSE columns[i]]

\* the loop over column_mappings, from entry k on
RECURSIVE ApplyMappings(_, _)
ApplyMappings(columns, k) ==
    IF k > Len(column_mappings) THEN columns
    ELSE LET old_name == column_mappings[k][1]
             new_name == column_mappings[k][2]
         IN  IF InColumns(old_name, columns) /\ ~InColumns(new_name, columns)
             THEN ApplyMappings(RenameColumn(columns, old_name, new_name), k + 1)
             ELSE ApplyMappings(columns, k + 1)

datetime_columns == <<col_departure_time, col_return_time>>
numeric_columns == <<col_covered_distance_km, col_duration_sec>>

\* df[col] of a name carried by several columns is a frame, not a column:
\* pd.to_datetime of it raises ValueError, pd.to_numeric of it TypeError,
\* and .map(dict) on it raises TypeError.  The first failing step decides.
CoercionFailure(columns) ==
    IF \E k \in 1..Len(datetime_columns) :
           ColumnCount(datetime_columns[k], columns) > 1
    THEN "ValueError"
    ELSE IF \E k \in 1..Len(numeric_columns) :
                ColumnCount(numeric_columns[k], columns) > 1
         THEN "TypeError"
         ELSE IF ColumnCount(col_has_stopover, columns) > 1
              THEN "TypeError"
              ELSE "none"

\* standardize_trip_schema: the frame with its columns renamed, or the
\* exception of a coercion step.  It has no except clause of its own.
standardize_trip_schema(df) ==
    LET columns == ApplyMappings(NormalizeColumns(df.columns), 1)
    IN  IF CoercionFailure(columns) # "none"
        THEN [ok |-> FALSE, exc |-> CoercionFailure(columns)]
        ELSE [ok |-> TRUE, df |-> [df EXCEPT !.columns = columns]]

\* df["source_file"] = file_path.name
TagSource(df, name) ==
    [columns |-> IF InColumns(col_source_file, df.columns) THEN df.columns
                 ELSE Append(df.columns, col_source_file),
     rows |-> [i \in 1..Len(df.rows) |->
                  [df.rows[i] EXCEPT !.source_file = name]]]

\* pd.concat(all_dataframes, ignore_index=True): the rows of the frames in
\* list order under the union of their columns.  Aligning frames of
\* different columns reindexes them, which raises InvalidIndexError for a
\* frame whose column names are not unique.
HasDuplicateColumns(df) ==
    \E i, j \in 1..Len(df.columns) : i < j /\ df.columns[i] = df.columns[j]

RECURSIVE UnionColumns(_, _)
UnionColumns(acc, columns) ==
    IF columns = <<>> THEN acc
    ELSE UnionColumns(IF InColumns(Head(columns), acc) THEN acc
                      ELSE Append(acc, Head(columns)),
                      Tail(columns))

RECURSIVE ConcatFrames(_)
ConcatFrames(frames) ==
    IF Len(frames) = 1 THEN frames[1]
    ELSE LET rest == ConcatFrames(Tail(frames))
         IN  [columns |-> UnionColumns(frames[1].columns, rest.columns),
              rows |-> frames[1].rows \o rest.rows]

pd_concat(frames) ==
    IF /\ \E i \in 1..Len(frames) : HasDuplicateColumns(frames[i])
       /\ \E i, j \in 1..Len(frames) : frames[i].columns # frames[j].columns
    THEN [ok |-> FALSE, exc |-> "InvalidIndexError"]
    ELSE [ok |-> TRUE, df |-> ConcatFrames(frames)]

NoFrame == [columns |-> <<>>, rows |-> <<>>]

\* combine_trip_data, lines 143-146: the empty list is refused at once
CombineStart ==
    /\ op = "combine"
    /\ cOutcome = "idle"
    /\ IF file_paths = <<>>
       THEN /\ cOutcome' = "raised"
            /\ cExc' = DataProcessorError
            /\ cI' = cI
       ELSE /\ cOutcome' = "running"
            /\ cI' = 1
            /\ cExc' = cExc
    /\ UNCHANGED <<op, extraVars, downloadVars, restoreVars, gbfsVars, disk, file_paths, all_dataframes, combined_df>>

\* the body of the try statement for the file at position cI
CombineTry(file_path) ==
    LET r == read_trip_data_file(file_path, disk[file_path])
    IN  IF ~r.ok THEN r
        ELSE LET st == standardize_trip_schema(r.df)
             IN  IF ~st.ok THEN st
                 ELSE [ok |-> TRUE, df |-> TagSource(st.df, PathName(file_path))]

\* except DataProcessorError, lines 161-163
CombineErrorIsCaught(exc) == exc = DataProcessorError

\* one iteration of the loop, lines 148-163, that appends a frame
CombineFileLoaded ==
    /\ op = "combine"
    /\ cOutcome = "running"
    /\ cI <= Len(file_paths)
    /\ CombineTry(file_paths[cI]).ok
    /\ all_dataframes' = Append(all_dataframes, CombineTry(file_paths[cI]).df)
    /\ cI' = cI + 1
    /\ UNCHANGED <<op, extraVars, downloadVars, restoreVars, gbfsVars, disk, file_paths, cOutcome, cExc, combined_df>>

\* one iteration whose exception the except clause catches: the file is
\* skipped
CombineFileSkipped ==
    /\ op = "combine"
    /\ cOutcome = "running"
    /\ cI <= Len(file_paths)
    /\ ~CombineTry(file_paths[cI]).ok
    /\ CombineErrorIsCaught(CombineTry(file_paths[cI]).exc)
    /\ cI' = cI + 1
    /\ UNCHANGED <<op, extraVars, downloadVars, restoreVars, gbfsVars, disk, file_paths, all_dataframes, cOutcome, cExc,
                   combined_df>>

\* one iteration whose exception is of another class: it leaves the call
CombineFileRaises ==
    /\ op = "combine"
    /\ cOutcome = "running"
    /\ cI <= Len(file_paths)
    /\ ~CombineTry(file_paths[cI]).ok
    /\ ~CombineErrorIsCaught(CombineTry(file_paths[cI]).exc)
    /\ cOutcome' = "raised"
    /\ cExc' = CombineTry(file_paths[cI]).exc
    /\ UNCHANGED <<op, extraVars, downloadVars, restoreVars, gbfsVars, disk, file_paths, cI, all_dataframes, combined_df>>

\* after the loop, lines 165-172
CombineFinish ==
    /\ op = "combine"
    /\ cOutcome = "running"
    /\ cI > Len(file_paths)
    /\ IF all_dataframes = <<>>
       THEN /\ cOutcome' = "raised"
            /\ cExc' = DataProcessorError
            /\ combined_df' = combined_df
       ELSE IF pd_concat(all_dataframes).ok
            THEN /\ cOutcome' = "returned"
                 /\ combined_df' = pd_concat(all_dataframes).df
                 /\ cExc' = cExc
            ELSE /\ cOutcome' = "raised"
                 /\ cExc' = pd_concat(all_dataframes).exc
                 /\ combined_df' = combined_df
    /\ UNCHANGED <<op, extraVars, downloadVars, restoreVars, gbfsVars, disk, file_paths, cI, all_dataframes>>

CombineIdle ==
    /\ disk = [p \in CombinePaths |-> Garbage]
    /\ file_paths = <<>>
    /\ cI = 0
    /\ all_dataframes = <<>>
    /\ cOutcome = "idle"
    /\ cExc = "none"
    /\ combined_df = NoFrame

\* the files on disk and the argument of the call
RECURSIVE SeqsUpTo(_, _)
SeqsUpTo(S, n) ==
    IF n = 0 THEN {<<>>}
    ELSE LET shorter == SeqsUpTo(S, n - 1)
         IN  shorter \cup {Append(q, x) : q \in shorter, x \in S}

InitCombine ==
    /\ op = "combine"
    /\ disk \in {d \in [CombinePaths -> CsvBodies \cup ZipBodies \cup {Garbage}] :
                    \A p \in CombinePaths : d[p] \in ContentsFor(p)}
    /\ file_paths \in SeqsUpTo(CombinePaths, MaxFiles)
    /\ cI = 0
    /\ all_dataframes = <<>>
    /\ cOutcome = "idle"
    /\ cExc = "none"
    /\ combined_df = NoFrame

NextCombine ==
    \/ CombineStart
    \/ CombineFileLoaded
    \/ CombineFileSkipped
    \/ CombineFileRaises
    \/ CombineFinish


\* ------------------------------------------------------------------
\* data_downloader.py: the file fetcher
\* ------------------------------------------------------------------
MobiDataDownloaderError == "MobiDataDownloaderError"

\* The descriptors the scraper can return.  The filename is synthesized from
\* month and year, so two links can share one filename.
Filenames == {"mobi_2023_January.csv", "mobi_Unknown_Unknown.csv"}

Descriptors ==
    { [url |-> "u1", filename |-> "mobi_2023_January.csv"],
      [url |-> "u2", filename |-> "mobi_Unknown_Unknown.csv"],
      [url |-> "u3", filename |-> "mobi_Unknown_Unknown.csv"] }

\* A file of the output directory is absent, complete (all bytes of a
\* response), or partial (opened for writing, the stream broke off).
FileStates == {"absent", "complete", "partial"}

\* How one call of download_file can end.
\*   "ok"        every chunk written, the path is returned
\*   "request"   requests.get or raise_for_status raises RequestException,
\*               or mkdir raises OSError: the target is not touched
\*   "stream"    open(output_path, "wb") has truncated or created the target
\*               and iter_content or write then raises
DownloadEvents == {"ok", "request", "stream"}

\* download_file: the file it leaves and whether it returns the path
download_file(before, event) ==
    CASE event = "ok" -> [ok |-> TRUE, file |-> "complete"]
      [] event = "request" ->
            [ok |-> FALSE, file |-> before, exc |-> MobiDataDownloaderError]
      [] event = "stream" ->
            [ok |-> FALSE, file |-> "partial", exc |-> MobiDataDownloaderError]

\* a call of download_all_trip_data is in place: on its own, or before
\* the restoration
Downloading == op = "download" \/ (op = "pipeline" /\ rCalls = 0)

\* download_all_trip_data, lines 192-199: the scrape succeeded
DownloadAllStart ==
    /\ Downloading
    /\ dOutcome \in {"idle", "returned", "raised"}
    /\ dRun < MaxRuns
    /\ dRun' = dRun + 1
    /\ overwrite' \in BOOLEAN
    /\ dOutcome' = "running"
    /\ dI' = 1
    /\ downloaded_files' = <<>>
    /\ dStartDir' = outDir
    /\ dLog' = <<>>
    /\ UNCHANGED <<op, extraVars, combineVars, restoreVars, gbfsVars, outDir, data_files>>

\* get_available_data_files raises: the call raises before the loop
DownloadAllScrapeFails ==
    /\ Downloading
    /\ dOutcome \in {"idle", "returned", "raised"}
    /\ dRun < MaxRuns
    /\ dRun' = dRun + 1
    /\ overwrite' \in BOOLEAN
    /\ dOutcome' = "raised"
    /\ dI' = 0
    /\ downloaded_files' = <<>>
    /\ dStartDir' = outDir
    /\ dLog' = <<>>
    /\ UNCHANGED <<op, extraVars, combineVars, restoreVars, gbfsVars, outDir, data_files>>

\* output_path.exists() and not overwrite
SkipsExisting(file, ow) == file # "absent" /\ ~ow

\* lines 205-208: the target exists and overwrite is off
DownloadAllSkip ==
    /\ Downloading
    /\ dOutcome = "running"
    /\ dI <= Len(data_files)
    /\ LET filename == data_files[dI].filename
       IN  /\ SkipsExisting(outDir[filename], overwrite)
           /\ downloaded_files' = Append(downloaded_files, filename)
           /\ dLog' = Append(dLog, [filename |-> filename, existed |-> TRUE,
                                    event |-> "skip"])
    /\ dI' = dI + 1
    /\ UNCHANGED <<op, extraVars, combineVars, restoreVars, gbfsVars, outDir, data_files, overwrite, dOutcome,
                   dRun, dStartDir>>

\* lines 215-218: download_file returned
DownloadAllSaved ==
    /\ Downloading
    /\ dOutcome = "running"
    /\ dI <= Len(data_files)
    /\ LET filename == data_files[dI].filename
           r == download_file(outDir[filename], "ok")
       IN  /\ ~SkipsExisting(outDir[filename], overwrite)
           /\ outDir' = [outDir EXCEPT ![filename] = r.file]
           /\ downloaded_files' = Append(downloaded_files, filename)
           /\ dLog' = Append(dLog, [filename |-> filename,
                                    existed |-> outDir[filename] # "absent",
                                    event |-> "ok"])
    /\ dI' = dI + 1
    /\ UNCHANGED <<op, extraVars, combineVars, restoreVars, gbfsVars, data_files, overwrite, dOutcome, dRun,
                   dStartDir>>

\* a fetcher whose except clause misses the error of download_file
DownloadErrorIsCaught_Uncaught(exc) == FALSE

\* except MobiDataDownloaderError, lines 219-221
DownloadErrorIsCaught(exc) == exc = MobiDataDownloaderError

\* lines 215-221: download_file raised; a caught exception lets the loop go
\* on with the next descriptor
DownloadAllFailed ==
    /\ Downloading
    /\ dOutcome = "running"
    /\ dI <= Len(data_files)
    /\ \E event \in DownloadEvents \ {"ok"} :
         LET filename == data_files[dI].filename
             r == download_file(outDir[filename], event)
         IN  /\ ~SkipsExisting(outDir[filename], overwrite)
             /\ outDir' = [outDir EXCEPT ![filename] = r.file]
             /\ dLog' = Append(dLog, [filename |-> filename,
                                      existed |-> outDir[filename] # "absent",
                                      event |-> event])
             /\ IF DownloadErrorIsCaught(r.exc)
                THEN dI' = dI + 1 /\ dOutcome' = dOutcome
                ELSE dI' = dI /\ dOutcome' = "raised"
    /\ UNCHANGED <<op, extraVars, combineVars, restoreVars, gbfsVars, data_files,
                   overwrite, downloaded_files, dRun, dStartDir>>

\* lines 223-224
DownloadAllReturn ==
    /\ Downloading
    /\ dOutcome = "running"
    /\ dI > Len(data_files)
    /\ dOutcome' = "returned"
    /\ UNCHANGED <<op, extraVars, combineVars, restoreVars, gbfsVars, outDir, data_files, overwrite, dI,
                   downloaded_files, dRun, dStartDir, dLog>>

DownloadIdle ==
    /\ outDir = [f \in Filenames |-> "absent"]
    /\ data_files = <<>>
    /\ overwrite = FALSE
    /\ dI = 0
    /\ downloaded_files = <<>>
    /\ dOutcome = "idle"
    /\ dRun = 0
    /\ dStartDir = [f \in Filenames |-> "absent"]
    /\ dLog = <<>>

\* the page's links and the files already in the output directory
InitDownload ==
    /\ op = "download"
    /\ CombineIdle
    /\ outDir \in [Filenames -> {"absent", "complete"}]
    /\ data_files \in SeqsUpTo(Descriptors, MaxDescriptors)
    /\ overwrite = FALSE
    /\ dI = 0
    /\ downloaded_files = <<>>
    /\ dOutcome = "idle"
    /\ dRun = 0
    /\ dStartDir = outDir
    /\ dLog = <<>>

NextDownload ==
    \/ DownloadAllStart
    \/ DownloadAllScrapeFails
    \/ DownloadAllSkip
    \/ DownloadAllSaved
    \/ DownloadAllFailed
    \/ DownloadAllReturn

\* ------------------------------------------------------------------
\* data_downloader.py: the bundle restorer
\* ------------------------------------------------------------------
\* File and directory names, their Path.suffix, and their place in the
\* order of str (code points: upper case before lower case)
NameSuffix(name) ==
    CASE name \in {"a.csv", "b.csv", "c.csv", "x.csv", "z.csv", "evil.csv",
                    "mobi_2023_January.csv", "mobi_Unknown_Unknown.csv"}
             -> ".csv"
      [] name = "B.CSV" -> ".CSV"
      [] name \in {"notes.txt", "y.txt"} -> ".txt"
      [] name = "page.md" -> ".md"
      [] OTHER -> ""

NameOrder ==
    <<"..", "B.CSV", "a.csv", "b.csv", "c.csv", "data", "evil.csv",
      "mobi_2023_January.csv", "mobi_Unknown_Unknown.csv", "mobi_site",
      "notes.txt", "page.md", "raw", "raw_old", "sub", "trip_data", "x.csv",
      "y.txt", "z.csv">>

NameRank(name) == CHOOSE i \in 1..Len(NameOrder) : NameOrder[i] = name

\* Path.__lt__: the parts compared as lists of str
RECURSIVE PathLess(_, _)
PathLess(p, q) ==
    IF q = <<>> THEN FALSE
    ELSE IF p = <<>> THEN TRUE
    ELSE IF Head(p) = Head(q) THEN PathLess(Tail(p), Tail(q))
    ELSE NameRank(Head(p)) < NameRank(Head(q))

\* sorted(paths) of a list of paths
RECURSIVE InsertSorted(_, _)
InsertSorted(sortedSeq, p) ==
    IF sortedSeq = <<>> THEN <<p>>
    ELSE IF PathLess(p, Head(sortedSeq)) THEN <<p>> \o sortedSeq
    ELSE <<Head(sortedSeq)>> \o InsertSorted(Tail(sortedSeq), p)

RECURSIVE SortPathsFrom(_, _)
SortPathsFrom(acc, paths) ==
    IF paths = <<>> THEN acc
    ELSE SortPathsFrom(InsertSorted(acc, Head(paths)), Tail(paths))

SortedPaths(paths) == SortPathsFrom(<<>>, paths)

\* a set of paths as a list in some order
RECURSIVE SetToSeq(_)
SetToSeq(S) ==
    IF S = {} THEN <<>>
    ELSE LET x == CHOOSE y \in S : TRUE IN <<x>> \o SetToSeq(S \ {x})

\* the paths, relative to raw_dir, that the model's files can have; open()
\* follows a ".." segment to the parent directory
RelPaths ==
    { <<"a.csv">>, <<"b.csv">>, <<"B.CSV">>, <<"z.csv">>, <<"notes.txt">>,
      <<"page.md">>, <<"sub", "c.csv">>, <<"x.csv", "y.txt">>,
      <<"mobi_2023_January.csv">>, <<"mobi_Unknown_Unknown.csv">>,
      <<"..", "evil.csv">>, <<"sub", "..", "..", "evil.csv">> }

\* a glob whose pattern matches no file name
GlobCsv_NoMatch(files) == <<>>

\* sorted(raw_dir.glob("*.csv")): the entries directly in raw_dir, files and
\* directories alike, whose name ends in ".csv" (the match is case-sensitive
\* on POSIX)
GlobCsv(files) ==
    SortedPaths(SetToSeq({ <<p[1]>> : p \in { q \in RelPaths :
                              /\ files[q] # "absent"
                              /\ NameSuffix(q[1]) = ".csv" } }))

\* The bundle archives: the members in the order of infolist()
TripPrefix == <<"data", "trip_data", "raw">>

Member(parts) == [filename |-> parts, is_dir |-> FALSE]
DirMember(parts) == [filename |-> parts, is_dir |-> TRUE]

ArchiveIds == {"spec", "mixed", "nested", "nocsv", "site", "csvdir", "slip"}

ArchiveMembers(id) ==
    CASE id = "spec" ->
           << Member(TripPrefix \o <<"b.csv">>),
              Member(TripPrefix \o <<"a.csv">>) >>
      [] id = "mixed" ->
           << DirMember(TripPrefix),
              Member(<<"data", "mobi_site", "raw", "page.md">>),
              Member(TripPrefix \o <<"notes.txt">>),
              DirMember(TripPrefix \o <<"sub">>),
              Member(TripPrefix \o <<"sub", "c.csv">>),
              Member(<<"data", "trip_data", "raw_old", "z.csv">>),
              Member(TripPrefix \o <<"a.csv">>),
              Member(TripPrefix \o <<"B.CSV">>) >>
      [] id = "nested" ->
           << Member(TripPrefix \o <<"sub", "c.csv">>),
              Member(TripPrefix \o <<"B.CSV">>) >>
      [] id = "nocsv" -> << Member(TripPrefix \o <<"notes.txt">>) >>
      [] id = "site" ->
           << Member(<<"data", "mobi_site", "raw", "page.md">>) >>
      [] id = "csvdir" -> << Member(TripPrefix \o <<"x.csv", "y.txt">>) >>
      [] id = "slip" ->
           << Member(TripPrefix \o <<"a.csv">>),
              Member(TripPrefix \o <<"..", "evil.csv">>),
              Member(TripPrefix \o <<"sub", "..", "..", "evil.csv">>) >>

\* _resolve_volume_root: parents[1], or the parent when there is none
resolve_volume_root(target_dir) ==
    IF Len(target_dir) >= 2 THEN SubSeq(target_dir, 1, Len(target_dir) - 2)
    ELSE IF Len(target_dir) = 1 THEN <<>>
    ELSE target_dir

\* the directory of the bundle shipped with the project
BundleDir == <<"proj">>

\* a restorer that copies the local bundle over whatever is staged
ensure_bundle_available_PreferLocal(bundle_dir, volume_root, z) ==
    IF z[bundle_dir] # "none"
    THEN [ok |-> TRUE, zips |-> [z EXCEPT ![volume_root] = z[bundle_dir]],
          copied |-> TRUE, readLocal |-> TRUE]
    ELSE IF z[volume_root] # "none"
         THEN [ok |-> TRUE, zips |-> z, copied |-> FALSE, readLocal |-> FALSE]
         ELSE [ok |-> FALSE, zips |-> z, copied |-> FALSE,
               readLocal |-> FALSE, exc |-> "FileNotFoundError"]

\* _ensure_bundle_available: the archives after the call and where the
\* archive to open is, or FileNotFoundError
ensure_bundle_available(bundle_dir, volume_root, z) ==
    IF z[volume_root] # "none"
    THEN [ok |-> TRUE, zips |-> z, copied |-> FALSE, readLocal |-> FALSE]
    ELSE IF z[bundle_dir] # "none"
         THEN [ok |-> TRUE,
               zips |-> [z EXCEPT ![volume_root] = z[bundle_dir]],
               copied |-> TRUE, readLocal |-> TRUE]
         ELSE [ok |-> FALSE, zips |-> z, copied |-> FALSE,
               readLocal |-> FALSE, exc |-> "FileNotFoundError"]

\* PurePosixPath.relative_to(prefix): prefix is a leading run of whole
\* segments of the member path
IsUnder(parts, prefix) ==
    /\ Len(parts) >= Len(prefix)
    /\ SubSeq(parts, 1, Len(prefix)) = prefix

RelativeTo(parts, prefix) == SubSeq(parts, Len(prefix) + 1, Len(parts))

\* the loop of _extract_bundle_subdir over the members from k on
RECURSIVE ExtractFrom(_, _, _, _, _)
ExtractFrom(id, k, prefix, files, extracted) ==
    IF k > Len(ArchiveMembers(id))
    THEN [files |-> files, extracted |-> extracted]
    ELSE LET member == ArchiveMembers(id)[k]
         IN  IF member.is_dir \/ ~IsUnder(member.filename, prefix)
             THEN ExtractFrom(id, k + 1, prefix, files, extracted)
             ELSE LET rel == RelativeTo(member.filename, prefix)
                  IN  ExtractFrom(id, k + 1, prefix,
                                  [files EXCEPT ![rel] = id],
                                  Append(extracted, rel))

\* _extract_bundle_subdir
extract_bundle_subdir(id, archive_subdir, files) ==
    LET r == ExtractFrom(id, 1, archive_subdir, files, <<>>)
    IN  IF r.extracted = <<>>
        THEN [ok |-> FALSE, files |-> r.files, extracted |-> <<>>,
              exc |-> "RuntimeError"]
        ELSE [ok |-> TRUE, files |-> r.files, extracted |-> r.extracted]

\* path.suffix.lower() == ".csv"
IsCsvPath(path) == SuffixLower(NameSuffix(path[Len(path)])) = ".csv"

\* restore_trip_data_from_bundle: what one call does to the raw directory
\* and the archives, and how it ends
restore_trip_data_from_bundle(dir, bundle_dir, files, z) ==
    LET existing_csvs == GlobCsv(files)
        volume_root == resolve_volume_root(dir)
        avail == ensure_bundle_available(bundle_dir, volume_root, z)
        ex == extract_bundle_subdir(avail.zips[volume_root], TripPrefix, files)
        extracted_csvs == SortedPaths(SelectSeq(ex.extracted, IsCsvPath))
        rescanned == GlobCsv(ex.files)
        csv_paths == IF extracted_csvs # <<>> THEN extracted_csvs ELSE rescanned
        untouched == [triggered |-> FALSE, copied |-> FALSE,
                      readLocal |-> FALSE, opened |-> "none",
                      written |-> <<>>, rescanned |-> FALSE,
                      filesBefore |-> files, zipsBefore |-> z]
    IN  IF existing_csvs # <<>>
        THEN [how |-> "existing", ok |-> TRUE, result |-> existing_csvs,
              exc |-> "none", files |-> files, zips |-> z, did |-> untouched]
        ELSE IF ~avail.ok
        THEN [how |-> "notfound", ok |-> FALSE, result |-> <<>>,
              exc |-> avail.exc, files |-> files, zips |-> z,
              did |-> [untouched EXCEPT !.triggered = TRUE]]
        ELSE LET did == [triggered |-> TRUE, copied |-> avail.copied,
                         readLocal |-> avail.readLocal,
                         opened |-> avail.zips[volume_root],
                         written |-> ex.extracted,
                         rescanned |-> ex.ok /\ extracted_csvs = <<>>,
                         filesBefore |-> files, zipsBefore |-> z]
             IN  IF ~ex.ok
                 THEN [how |-> "nofiles", ok |-> FALSE, result |-> <<>>,
                       exc |-> ex.exc, files |-> ex.files,
                       zips |-> avail.zips, did |-> did]
                 ELSE IF csv_paths = <<>>
                 THEN [how |-> "nocsv", ok |-> FALSE, result |-> <<>>,
                       exc |-> "RuntimeError", files |-> ex.files,
                       zips |-> avail.zips, did |-> did]
                 ELSE [how |-> IF extracted_csvs # <<>> THEN "extracted"
                               ELSE "rescanned",
                       ok |-> TRUE, result |-> csv_paths, exc |-> "none",
                       files |-> ex.files, zips |-> avail.zips, did |-> did]

\* the call made in the current state
ThisRestore == restore_trip_data_from_bundle(raw_dir, BundleDir, rawFiles, zips)

\* the state after a call that did r
RestoreEffect(r) ==
    /\ rawFiles' = r.files
    /\ zips' = r.zips
    /\ rOutcome' = IF r.ok THEN "returned" ELSE "raised"
    /\ rResult' = r.result
    /\ rExc' = r.exc
    /\ rLast' = r.did
    /\ rPrev' = [outcome |-> rOutcome, result |-> rResult]
    /\ rCalls' = rCalls + 1
    /\ UNCHANGED <<op, extraVars, combineVars, downloadVars, gbfsVars, raw_dir>>

\* lines 338-340: CSV files are there already
RestoreExisting ==
    /\ op = "restore" /\ rCalls < MaxCalls
    /\ ThisRestore.how = "existing"
    /\ RestoreEffect(ThisRestore)

\* _ensure_bundle_available raises FileNotFoundError
RestoreNotFound ==
    /\ op = "restore" /\ rCalls < MaxCalls
    /\ ThisRestore.how = "notfound"
    /\ RestoreEffect(ThisRestore)

\* _extract_bundle_subdir raises RuntimeError: nothing under the prefix
RestoreNoFiles ==
    /\ op = "restore" /\ rCalls < MaxCalls
    /\ ThisRestore.how = "nofiles"
    /\ RestoreEffect(ThisRestore)

\* lines 356-359: nothing with a .csv suffix, nothing found by the re-scan
RestoreNoCsv ==
    /\ op = "restore" /\ rCalls < MaxCalls
    /\ ThisRestore.how = "nocsv"
    /\ RestoreEffect(ThisRestore)

\* lines 352, 361: the extracted CSV files are returned
RestoreExtracted ==
    /\ op = "restore" /\ rCalls < MaxCalls
    /\ ThisRestore.how = "extracted"
    /\ RestoreEffect(ThisRestore)

\* lines 353-354, 361: the entries found by the re-scan are returned
RestoreRescanned ==
    /\ op = "restore" /\ rCalls < MaxCalls
    /\ ThisRestore.how = "rescanned"
    /\ RestoreEffect(ThisRestore)

\* the raw directories, the directories that can hold the bundle
RawDirs == { <<"vol", "trip_data", "raw">>, <<"vol", "raw">>, <<"raw">> }
ZipDirs == { <<"vol">>, <<>>, BundleDir }
NoDid == [triggered |-> FALSE, copied |-> FALSE, readLocal |-> FALSE,
          opened |-> "none", written |-> <<>>, rescanned |-> FALSE,
          filesBefore |-> [p \in RelPaths |-> "absent"],
          zipsBefore |-> [d \in ZipDirs |-> "none"]]

RestoreIdle ==
    /\ raw_dir = <<"raw">>
    /\ rawFiles = [p \in RelPaths |-> "absent"]
    /\ zips = [d \in ZipDirs |-> "none"]
    /\ rOutcome = "idle"
    /\ rResult = <<>>
    /\ rExc = "none"
    /\ rCalls = 0
    /\ rLast = NoDid
    /\ rPrev = [outcome |-> "idle", result |-> <<>>]

Preexisting == { <<"a.csv">>, <<"notes.txt">>, <<"sub", "c.csv">> }
StagedArchives == {"none", "spec", "csvdir"}

InitRestore ==
    /\ op = "restore"
    /\ CombineIdle
    /\ DownloadIdle
    /\ raw_dir \in RawDirs
    /\ \E present \in SUBSET Preexisting :
         rawFiles = [p \in RelPaths |-> IF p \in present THEN "old" ELSE "absent"]
    /\ \E local \in ArchiveIds \cup {"none"} :
         \E staged \in [ZipDirs \ {BundleDir} -> StagedArchives] :
           zips = [d \in ZipDirs |-> IF d = BundleDir THEN local ELSE staged[d]]
    /\ rOutcome = "idle"
    /\ rResult = <<>>
    /\ rExc = "none"
    /\ rCalls = 0
    /\ rLast = [NoDid EXCEPT !.filesBefore = rawFiles, !.zipsBefore = zips]
    /\ rPrev = [outcome |-> "idle", result |-> <<>>]

NextRestore ==
    \/ RestoreExisting
    \/ RestoreNotFound
    \/ RestoreNoFiles
    \/ RestoreNoCsv
    \/ RestoreExtracted
    \/ RestoreRescanned

\* ------------------------------------------------------------------
\* gbfs.py
\* ------------------------------------------------------------------
GBFSClientError == "GBFSClientError"

DiscoveryUrl == "gbfs.json"

\* The answers of the discovery URL: a document with a feed list, a
\* document without the "data" key, a failed request, a body that is not
\* JSON, and the JSON document null.
FeedsFull ==
    << [name |-> "station_information", url |-> "info_v1"],
       [name |-> "station_status", url |-> "status_v1"],
       [name |-> "system_alerts", url |-> "alerts_v1"] >>
FeedsMoved ==
    << [name |-> "station_information", url |-> "info_v2"],
       [name |-> "station_status", url |-> "status_v2"],
       [name |-> "station_information", url |-> "info_v3"] >>

ServerAnswers ==
    { [kind |-> "ok", feeds |-> FeedsFull],
      [kind |-> "ok", feeds |-> FeedsMoved],
      [kind |-> "ok", feeds |-> <<>>],
      [kind |-> "nodata"],
      [kind |-> "down"],
      [kind |-> "badjson"],
      [kind |-> "null"] }

\* the answers of a feed's own URL
FeedAnswers ==
    { [kind |-> "ok"], [kind |-> "nodata"], [kind |-> "down"],
      [kind |-> "badjson"], [kind |-> "null"] }

FeedNames ==
    {"station_information", "station_status", "system_alerts",
     "nonexistent_feed"}

\* get_gbfs_feed: the parsed document, or GBFSClientError for a failed
\* request, invalid JSON or a missing "data" key.  The test
\* "data" not in data of a document that is null raises TypeError, which
\* neither except clause takes.
get_gbfs_feed(answer) ==
    CASE answer.kind = "ok" ->
           [ok |-> TRUE, exc |-> "none", msg |-> "none", data |-> answer]
      [] answer.kind = "nodata" ->
           [ok |-> FALSE, exc |-> GBFSClientError,
            msg |-> "missing 'data' key", data |-> answer]
      [] answer.kind = "down" ->
           [ok |-> FALSE, exc |-> GBFSClientError,
            msg |-> "Failed to fetch", data |-> answer]
      [] answer.kind = "badjson" ->
           [ok |-> FALSE, exc |-> GBFSClientError,
            msg |-> "Failed to parse", data |-> answer]
      [] answer.kind = "null" ->
           [ok |-> FALSE, exc |-> "TypeError",
            msg |-> "not iterable", data |-> answer]

\* {feed["name"]: feed["url"] for feed in feeds}: the last entry of a name
\* decides
FeedDict(feeds) ==
    [n \in {feeds[i].name : i \in 1..Len(feeds)} |->
        feeds[CHOOSE i \in 1..Len(feeds) :
                 /\ feeds[i].name = n
                 /\ \A j \in (i + 1)..Len(feeds) : feeds[j].name # n].url]

\* self._feed_urls: None, or a dict
None == [loaded |-> FALSE]
Cached(urls) == [loaded |-> TRUE, urls |-> urls]

\* a client that never trusts its cache
CacheIsUnset_Always(cache) == TRUE

\* if self._feed_urls is None
CacheIsUnset(cache) == cache = None

\* a client that takes any feed list, the empty one too
NoFeeds_Never(feeds) == FALSE

\* if not feeds
NoFeeds(feeds) == feeds = <<>>

\* _get_feed_urls: the mapping returned, the cache after the call and the
\* requests made
get_feed_urls(cache, answer) ==
    IF CacheIsUnset(cache)
    THEN LET discovery_data == get_gbfs_feed(answer)
         IN  IF ~discovery_data.ok
             THEN [ok |-> FALSE, exc |-> discovery_data.exc,
                   msg |-> discovery_data.msg, urls |-> <<>>,
                   cache |-> cache, requests |-> <<DiscoveryUrl>>]
             ELSE IF NoFeeds(discovery_data.data.feeds)
             THEN [ok |-> FALSE, exc |-> GBFSClientError,
                   msg |-> "No feeds found", urls |-> <<>>,
                   cache |-> cache, requests |-> <<DiscoveryUrl>>]
             ELSE [ok |-> TRUE, exc |-> "none", msg |-> "none",
                   urls |-> FeedDict(discovery_data.data.feeds),
                   cache |-> Cached(FeedDict(discovery_data.data.feeds)),
                   requests |-> <<DiscoveryUrl>>]
    ELSE [ok |-> TRUE, exc |-> "none", msg |-> "none", urls |-> cache.urls,
          cache |-> cache, requests |-> <<>>]

\* history kept by every client call that went through _get_feed_urls
GbfsHistory(r) ==
    /\ gCalls' = gCalls + 1
    /\ gFirst' = IF gFirst = None /\ r.ok THEN Cached(r.urls) ELSE gFirst
    /\ gReloads' = IF feed_urls # None /\ r.requests # <<>>
                   THEN gReloads + 1 ELSE gReloads

\* get_feeds()
GetFeeds ==
    /\ op = "gbfs"
    /\ gCalls < MaxClientCalls
    /\ LET r == get_feed_urls(feed_urls, server)
       IN  /\ feed_urls' = r.cache
           /\ gLast' = [call |-> "get_feeds", feed_name |-> "none",
                        ok |-> r.ok, exc |-> r.exc, msg |-> r.msg,
                        urls |-> r.urls, fetched |-> "none",
                        loaded |-> r.ok, listed |-> FALSE,
                        defaulted |-> FALSE, unsetBefore |-> feed_urls = None]
           /\ gRequests' = r.requests
           /\ GbfsHistory(r)
    /\ UNCHANGED <<op, extraVars, combineVars, downloadVars, restoreVars, server>>

\* a client that fetches the station_information URL whatever the name
FeedUrl_Station(urls, feed_name) == urls["station_information"]

\* feed_urls[feed_name]
FeedUrl(urls, feed_name) == urls[feed_name]

\* get_feed(feed_name); answer is what the discovery URL answers and
\* feedAnswer what the feed's own URL answers.  get_station_information,
\* get_station_status and get_system_information are get_feed of a fixed
\* name.
get_feed(cache, answer, feed_name, feedAnswer) ==
    LET r == get_feed_urls(cache, answer)
    IN  IF ~r.ok
        THEN [ok |-> FALSE, exc |-> r.exc, msg |-> r.msg, fetched |-> "none",
              listed |-> FALSE, cache |-> r.cache, requests |-> r.requests,
              lookup |-> r]
        ELSE IF feed_name \notin DOMAIN r.urls
        THEN [ok |-> FALSE, exc |-> GBFSClientError, msg |-> "not found",
              fetched |-> "none", listed |-> FALSE, cache |-> r.cache,
              requests |-> r.requests, lookup |-> r]
        ELSE LET feed == get_gbfs_feed(feedAnswer)
             IN  [ok |-> feed.ok, exc |-> feed.exc, msg |-> feed.msg,
                  fetched |-> FeedUrl(r.urls, feed_name),
                  listed |-> TRUE, cache |-> r.cache,
                  requests |-> Append(r.requests, FeedUrl(r.urls, feed_name)),
                  lookup |-> r]

GetFeed ==
    /\ op = "gbfs"
    /\ gCalls < MaxClientCalls
    /\ \E feed_name \in FeedNames, feedAnswer \in FeedAnswers :
         LET r == get_feed(feed_urls, server, feed_name, feedAnswer)
         IN  /\ feed_urls' = r.cache
             /\ gLast' = [call |-> "get_feed", feed_name |-> feed_name,
                          ok |-> r.ok, exc |-> r.exc, msg |-> r.msg,
                          urls |-> <<>>, fetched |-> r.fetched,
                          loaded |-> r.lookup.ok, listed |-> r.listed,
                          defaulted |-> FALSE,
                          unsetBefore |-> feed_urls = None]
             /\ gRequests' = r.requests
             /\ GbfsHistory(r.lookup)
    /\ UNCHANGED <<op, extraVars, combineVars, downloadVars, restoreVars, server>>

\* except GBFSClientError
CatchesClientError(r) == r.exc = GBFSClientError

\* try: return self.get_feed(name) / except GBFSClientError: return the
\* empty structure
get_feed_or_default(cache, answer, feed_name, feedAnswer) ==
    LET r == get_feed(cache, answer, feed_name, feedAnswer)
    IN  IF ~r.ok /\ CatchesClientError(r)
        THEN [r EXCEPT !.ok = TRUE, !.exc = "none"] @@ [defaulted |-> TRUE]
        ELSE r @@ [defaulted |-> FALSE]

\* what a call of an optional-feed method leaves behind; msg keeps the
\* message of the error the method took
OptionalFeedEffect(call, r) ==
    /\ feed_urls' = r.cache
    /\ gLast' = [call |-> call, feed_name |-> "none",
                 ok |-> r.ok, exc |-> r.exc, msg |-> r.msg,
                 urls |-> <<>>, fetched |-> r.fetched,
                 loaded |-> r.lookup.ok, listed |-> r.listed,
                 defaulted |-> r.defaulted,
                 unsetBefore |-> feed_urls = None]
    /\ gRequests' = r.requests
    /\ GbfsHistory(r.lookup)

\* get_system_alerts()
GetSystemAlerts ==
    /\ op = "gbfs"
    /\ gCalls < MaxClientCalls
    /\ \E feedAnswer \in FeedAnswers :
         OptionalFeedEffect("get_system_alerts",
             get_feed_or_default(feed_urls, server, "system_alerts",
                                 feedAnswer))
    /\ UNCHANGED <<op, extraVars, combineVars, downloadVars, restoreVars, server>>

\* get_free_bike_status()
GetFreeBikeStatus ==
    /\ op = "gbfs"
    /\ gCalls < MaxClientCalls
    /\ \E feedAnswer \in FeedAnswers :
         OptionalFeedEffect("get_free_bike_status",
             get_feed_or_default(feed_urls, server, "free_bike_status",
                                 feedAnswer))
    /\ UNCHANGED <<op, extraVars, combineVars, downloadVars, restoreVars, server>>

\* the environment: the discovery URL answers differently from now on
ServerChanges ==
    /\ op = "gbfs"
    /\ gCalls < MaxClientCalls
    /\ server' \in ServerAnswers \ {server}
    /\ UNCHANGED <<op, extraVars, combineVars, downloadVars, restoreVars, feed_urls,
                   gCalls, gLast, gRequests, gFirst, gReloads>>

NoCall == [call |-> "none", feed_name |-> "none", ok |-> TRUE, exc |-> "none",
           msg |-> "none", urls |-> <<>>, fetched |-> "none",
           loaded |-> FALSE, listed |-> FALSE, defaulted |-> FALSE,
           unsetBefore |-> TRUE]

GbfsIdle ==
    /\ feed_urls = None
    /\ server = [kind |-> "down"]
    /\ gCalls = 0
    /\ gLast = NoCall
    /\ gRequests = <<>>
    /\ gFirst = None
    /\ gReloads = 0

\* GBFSClient.__init__, lines 71-73
InitGbfs ==
    /\ op = "gbfs"
    /\ CombineIdle
    /\ DownloadIdle
    /\ RestoreIdle
    /\ feed_urls = None
    /\ server \in ServerAnswers
    /\ gCalls = 0
    /\ gLast = NoCall
    /\ gRequests = <<>>
    /\ gFirst = None
    /\ gReloads = 0

NextGbfs ==
    GetFeeds \/ GetFeed \/ GetSystemAlerts \/ GetFreeBikeStatus
      \/ ServerChanges

\* ------------------------------------------------------------------
\* Line 92 of standardize_trip_schema on one column name
\* ------------------------------------------------------------------
NameChars == {"T", "d", " ", "2", "-", "_"}

RECURSIVE NamesUpTo(_)
NamesUpTo(n) ==
    IF n = 0 THEN {<<>>}
    ELSE NamesUpTo(n - 1) \cup
         { Append(s, c) : s \in { t \in NamesUpTo(n - 1) : Len(t) = n - 1 },
                          c \in NameChars }

\* the column names tried: every short name, and two of real headers
SourceNames ==
    NamesUpTo(MaxNameLen) \cup
    { <<"T", "r", "i", "p", " ", "I", "D", " ">>,
      <<"2", "0", "2", "3", "c", "o", "l", "u", "m", "n">> }

\* df.columns = df.columns.str.strip().str.lower().str.replace(" ", "_")
StandardizeHeader ==
    /\ op = "sanitize"
    /\ hState = "given"
    /\ hOut' = NormalizeColumns(<<hName>>)[1]
    /\ hState' = "normalized"
    /\ UNCHANGED <<op, combineVars, downloadVars, restoreVars, gbfsVars,
                   scrapeVars, saveVars, hName>>

SanitizeIdle ==
    /\ hName = <<>>
    /\ hOut = <<>>
    /\ hState = "idle"

InitSanitize ==
    /\ op = "sanitize"
    /\ CombineIdle
    /\ DownloadIdle
    /\ RestoreIdle
    /\ GbfsIdle
    /\ hName \in SourceNames
    /\ hOut = <<>>
    /\ hState = "given"

NextSanitize == StandardizeHeader

\* ------------------------------------------------------------------
\* Download-all followed by restoration on the same directory
\* ------------------------------------------------------------------
\* the raw directory as download_all_trip_data left it: the files it
\* wrote or found lie directly in the directory
DirOf(dir) ==
    [p \in RelPaths |->
        IF Len(p) = 1 /\ p[1] \in Filenames THEN dir[p[1]] ELSE "absent"]

\* the call made on the directory of the download
PipelineRestore ==
    restore_trip_data_from_bundle(raw_dir, BundleDir, DirOf(outDir), zips)

\* lines 338-340: the directory holds CSV files, nothing is extracted
PipelineRestoreExisting ==
    /\ op = "pipeline" /\ rCalls = 0
    /\ dOutcome \in {"returned", "raised"}
    /\ PipelineRestore.how = "existing"
    /\ RestoreEffect(PipelineRestore)

\* lines 342-361: the bundle is extracted
PipelineRestoreExtracted ==
    /\ op = "pipeline" /\ rCalls = 0
    /\ dOutcome \in {"returned", "raised"}
    /\ PipelineRestore.how \in {"extracted", "rescanned"}
    /\ RestoreEffect(PipelineRestore)

\* the bundle is missing or holds no CSV file
PipelineRestoreRaises ==
    /\ op = "pipeline" /\ rCalls = 0
    /\ dOutcome \in {"returned", "raised"}
    /\ ~PipelineRestore.ok
    /\ RestoreEffect(PipelineRestore)

PipelineArchives == {"none", "spec", "mixed"}

InitPipeline ==
    /\ op = "pipeline"
    /\ CombineIdle
    /\ GbfsIdle
    /\ outDir \in [Filenames -> {"absent", "complete"}]
    /\ data_files \in SeqsUpTo(Descriptors, MaxDescriptors)
    /\ overwrite = FALSE
    /\ dI = 0
    /\ downloaded_files = <<>>
    /\ dOutcome = "idle"
    /\ dRun = 0
    /\ dStartDir = outDir
    /\ dLog = <<>>
    /\ raw_dir = <<"vol", "trip_data", "raw">>
    /\ rawFiles = [p \in RelPaths |-> "absent"]
    /\ \E local \in PipelineArchives :
         zips = [d \in ZipDirs |-> IF d = BundleDir THEN local ELSE "none"]
    /\ rOutcome = "idle"
    /\ rResult = <<>>
    /\ rExc = "none"
    /\ rCalls = 0
    /\ rLast = [NoDid EXCEPT !.zipsBefore = zips]
    /\ rPrev = [outcome |-> "idle", result |-> <<>>]

NextPipeline ==
    \/ NextDownload
    \/ PipelineRestoreExisting
    \/ PipelineRestoreExtracted
    \/ PipelineRestoreRaises

\* ------------------------------------------------------------------
\* get_available_data_files
\* ------------------------------------------------------------------
\* An anchor of the page: its text, and its href by what the function
\* looks for in it: the host drive.google.com, a /file/d/<id> part, the
\* extension, and the first match of (\d{4})[-_]?(\d{2}) as the year and
\* the two digits after it.
NoDigits == [found |-> FALSE, year |-> "none", month_num |-> <<0, 0>>]
UrlDigits(year, d1, d2) ==
    [found |-> TRUE, year |-> year, month_num |-> <<d1, d2>>]

Anchors ==
    { [id |-> "a1", text |-> "March 2023", gdrive |-> FALSE,
       file_id |-> "none", ext |-> ".csv", digits |-> NoDigits],
      [id |-> "a2", text |-> "Download", gdrive |-> FALSE,
       file_id |-> "none", ext |-> ".zip", digits |-> UrlDigits("2023", 0, 4)],
      [id |-> "a3", text |-> "Download", gdrive |-> TRUE,
       file_id |-> "abc", ext |-> "none", digits |-> NoDigits],
      [id |-> "a4", text |-> "About", gdrive |-> FALSE,
       file_id |-> "none", ext |-> "none", digits |-> UrlDigits("2023", 1, 2)],
      [id |-> "a5", text |-> "Download", gdrive |-> FALSE,
       file_id |-> "none", ext |-> ".csv", digits |-> UrlDigits("2023", 1, 3)],
      [id |-> "a6", text |-> "january 2024 trips", gdrive |-> TRUE,
       file_id |-> "x202399", ext |-> "none",
       digits |-> UrlDigits("2023", 9, 9)],
      [id |-> "a7", text |-> "Data", gdrive |-> FALSE,
       file_id |-> "none", ext |-> ".CSV", digits |-> UrlDigits("2024", 0, 0)] }

\* re.search of the month-and-year pattern in the link text, IGNORECASE:
\* the groups as they stand in the text
TextMonthYear(text) ==
    CASE text = "March 2023" ->
           [found |-> TRUE, month |-> "March", year |-> "2023"]
      [] text = "january 2024 trips" ->
           [found |-> TRUE, month |-> "january", year |-> "2024"]
      [] OTHER -> [found |-> FALSE, month |-> "none", year |-> "none"]

month_names ==
    <<"January", "February", "March", "April", "May", "June", "July",
      "August", "September", "October", "November", "December">>

\* int(month_num)
IntOf(month_num) == 10 * month_num[1] + month_num[2]

\* list[i] of Python: a negative index counts from the end
ListIndex(list, i) ==
    IF i >= 0 /\ i < Len(list) THEN [ok |-> TRUE, value |-> list[i + 1]]
    ELSE IF i < 0 /\ -i <= Len(list)
         THEN [ok |-> TRUE, value |-> list[Len(list) + i + 1]]
         ELSE [ok |-> FALSE, exc |-> "IndexError"]

\* is_gdrive or is_csv_or_zip
LooksLikeData(link) ==
    link.gdrive \/ link.ext \in {".csv", ".CSV", ".zip"}

\* the download URL of a link
DownloadUrl(link) ==
    IF link.gdrive /\ link.file_id # "none"
    THEN <<"uc?export=download&id=", link.file_id>>
    ELSE <<"urljoin", link.id>>

\* the body of the loop for one matching link: its descriptor, or the
\* exception of month_names[int(month_num) - 1]
Describe(link) ==
    LET t == TextMonthYear(link.text)
        m == ListIndex(month_names, IntOf(link.digits.month_num) - 1)
        named(month, year) ==
            [ok |-> TRUE,
             file |-> [url |-> DownloadUrl(link), month |-> month,
                       year |-> year, filename |-> <<"mobi", year, month>>,
                       link_text |-> link.text]]
    IN  IF t.found THEN named(t.month, t.year)
        ELSE IF link.digits.found
             THEN IF m.ok THEN named(m.value, link.digits.year)
                  ELSE [ok |-> FALSE, exc |-> m.exc]
             ELSE named("Unknown", "Unknown")

\* the loop over the links, lines 56-128
RECURSIVE ScanLinks(_)
ScanLinks(links) ==
    IF links = <<>> THEN [ok |-> TRUE, data_files |-> <<>>]
    ELSE IF ~LooksLikeData(Head(links)) THEN ScanLinks(Tail(links))
    ELSE LET d == Describe(Head(links))
             rest == ScanLinks(Tail(links))
         IN  IF ~d.ok THEN [ok |-> FALSE, exc |-> d.exc]
             ELSE IF ~rest.ok THEN rest
             ELSE [ok |-> TRUE, data_files |-> <<d.file>> \o rest.data_files]

\* get_available_data_files: the page is either not served or is a list of
\* anchors (html.parser accepts every document)
get_available_data_files(base_url) ==
    IF ~base_url.served
    THEN [ok |-> FALSE, exc |-> MobiDataDownloaderError]
    ELSE ScanLinks(base_url.links)

Pages ==
    {[served |-> FALSE, links |-> <<>>]} \cup
    {[served |-> TRUE, links |-> l] : l \in SeqsUpTo(Anchors, MaxAnchors)}

NoPage == [served |-> FALSE, links |-> <<>>]

\* the request fails: lines 42-46
ScrapeFetchFails ==
    /\ op = "scrape"
    /\ sOutcome = "idle"
    /\ ~page.served
    /\ sOutcome' = "raised"
    /\ sExc' = get_available_data_files(page).exc
    /\ UNCHANGED <<op, combineVars, downloadVars, restoreVars, gbfsVars,
                   sanitizeVars, saveVars, page, sResult>>

\* the loop ends: line 130
ScrapeReturns ==
    /\ op = "scrape"
    /\ sOutcome = "idle"
    /\ page.served
    /\ get_available_data_files(page).ok
    /\ sOutcome' = "returned"
    /\ sResult' = get_available_data_files(page).data_files
    /\ UNCHANGED <<op, combineVars, downloadVars, restoreVars, gbfsVars,
                   sanitizeVars, saveVars, page, sExc>>

\* an exception leaves the loop, which has no try statement
ScrapeLoopRaises ==
    /\ op = "scrape"
    /\ sOutcome = "idle"
    /\ page.served
    /\ ~get_available_data_files(page).ok
    /\ sOutcome' = "raised"
    /\ sExc' = get_available_data_files(page).exc
    /\ UNCHANGED <<op, combineVars, downloadVars, restoreVars, gbfsVars,
                   sanitizeVars, saveVars, page, sResult>>

ScrapeIdle ==
    /\ page = NoPage
    /\ sOutcome = "idle"
    /\ sExc = "none"
    /\ sResult = <<>>

InitScrape ==
    /\ op = "scrape"
    /\ CombineIdle
    /\ DownloadIdle
    /\ RestoreIdle
    /\ GbfsIdle
    /\ page \in Pages
    /\ sOutcome = "idle"
    /\ sExc = "none"
    /\ sResult = <<>>

NextScrape == ScrapeFetchFails \/ ScrapeReturns \/ ScrapeLoopRaises

\* ------------------------------------------------------------------
\* save_to_parquet
\* ------------------------------------------------------------------
\* What output_path.parent is before the call: a directory, a path that
\* can be created, a path below a directory without write permission, or
\* a regular file.
ParentStates == {"dir", "absent", "denied", "file"}

\* The frame by what to_parquet makes of it: written, or refused (a column
\* of mixed types, column names that repeat).
FrameKinds == {"rows", "empty", "mixed", "duplicate_columns"}

Compressions == {"snappy", "bogus"}

\* output_path.parent.mkdir(parents=True, exist_ok=True)
mkdir_parents(parent) ==
    CASE parent = "dir" -> [ok |-> TRUE, parent |-> "dir"]
      [] parent = "absent" -> [ok |-> TRUE, parent |-> "dir"]
      [] parent = "denied" ->
           [ok |-> FALSE, exc |-> "PermissionError", parent |-> parent]
      [] parent = "file" ->
           [ok |-> FALSE, exc |-> "FileExistsError", parent |-> parent]

\* df.to_parquet(output_path, compression=compression, index=False)
to_parquet(frame, codec, diskFull) ==
    IF frame \in {"mixed", "duplicate_columns"}
    THEN [ok |-> FALSE, exc |-> "ValueError", file |-> "absent"]
    ELSE IF codec # "snappy"
    THEN [ok |-> FALSE, exc |-> "ValueError", file |-> "absent"]
    ELSE IF diskFull
    THEN [ok |-> FALSE, exc |-> "OSError", file |-> "partial"]
    ELSE [ok |-> TRUE, exc |-> "none", file |-> "written"]

\* line 195, which stands before the try statement: the directory exists
\* afterwards
SaveMkdirDone ==
    /\ op = "save"
    /\ vPc = "start"
    /\ mkdir_parents(vParent).ok
    /\ vParent' = mkdir_parents(vParent).parent
    /\ vPc' = "try"
    /\ UNCHANGED <<op, combineVars, downloadVars, restoreVars, gbfsVars,
                   sanitizeVars, scrapeVars, vFrame, vCodec, vDiskFull,
                   vFile, vExc>>

\* line 195 raises: no except clause is in reach
SaveMkdirRaises ==
    /\ op = "save"
    /\ vPc = "start"
    /\ ~mkdir_parents(vParent).ok
    /\ vPc' = "raised"
    /\ vExc' = mkdir_parents(vParent).exc
    /\ UNCHANGED <<op, combineVars, downloadVars, restoreVars, gbfsVars,
                   sanitizeVars, scrapeVars, vParent, vFrame, vCodec,
                   vDiskFull, vFile>>

\* lines 197-203: the file is written and the path returned
SaveReturns ==
    /\ op = "save"
    /\ vPc = "try"
    /\ to_parquet(vFrame, vCodec, vDiskFull).ok
    /\ vFile' = to_parquet(vFrame, vCodec, vDiskFull).file
    /\ vPc' = "returned"
    /\ UNCHANGED <<op, combineVars, downloadVars, restoreVars, gbfsVars,
                   sanitizeVars, scrapeVars, vParent, vFrame, vCodec,
                   vDiskFull, vExc>>

\* lines 205-206: except Exception wraps what the try body raised
SaveWriteRaises ==
    /\ op = "save"
    /\ vPc = "try"
    /\ ~to_parquet(vFrame, vCodec, vDiskFull).ok
    /\ vFile' = to_parquet(vFrame, vCodec, vDiskFull).file
    /\ vPc' = "raised"
    /\ vExc' = DataProcessorError
    /\ UNCHANGED <<op, combineVars, downloadVars, restoreVars, gbfsVars,
                   sanitizeVars, scrapeVars, vParent, vFrame, vCodec,
                   vDiskFull>>

SaveIdle ==
    /\ vParent = "dir"
    /\ vFrame = "empty"
    /\ vCodec = "snappy"
    /\ vDiskFull = FALSE
    /\ vFile = "absent"
    /\ vPc = "idle"
    /\ vExc = "none"

InitSave ==
    /\ op = "save"
    /\ CombineIdle
    /\ DownloadIdle
    /\ RestoreIdle
    /\ GbfsIdle
    /\ vParent \in ParentStates
    /\ vFrame \in FrameKinds
    /\ vCodec \in Compressions
    /\ vDiskFull \in BOOLEAN
    /\ vFile = "absent"
    /\ vPc = "start"
    /\ vExc = "none"

NextSave == SaveMkdirDone \/ SaveMkdirRaises \/ SaveReturns \/ SaveWriteRaises

\* ------------------------------------------------------------------
\* The specification
\* ------------------------------------------------------------------
ExtraIdle == SanitizeIdle /\ ScrapeIdle /\ SaveIdle

Init ==
    \/ InitCombine /\ DownloadIdle /\ RestoreIdle /\ GbfsIdle /\ ExtraIdle
    \/ InitDownload /\ RestoreIdle /\ GbfsIdle /\ ExtraIdle
    \/ InitRestore /\ GbfsIdle /\ ExtraIdle
    \/ InitGbfs /\ ExtraIdle
    \/ InitSanitize /\ ScrapeIdle /\ SaveIdle
    \/ InitScrape /\ SanitizeIdle /\ SaveIdle
    \/ InitSave /\ SanitizeIdle /\ ScrapeIdle
    \/ InitPipeline /\ ExtraIdle
Next ==
    \/ NextCombine
    \/ NextDownload
    \/ NextRestore
    \/ NextGbfs
    \/ NextSanitize
    \/ NextScrape
    \/ NextSave
    \/ NextPipeline
Spec == Init /\ [][Next]_vars

\* one scenario each
CombineInit ==
    InitCombine /\ DownloadIdle /\ RestoreIdle /\ GbfsIdle /\ ExtraIdle
DownloadInit == InitDownload /\ RestoreIdle /\ GbfsIdle /\ ExtraIdle
RestoreInit == InitRestore /\ GbfsIdle /\ ExtraIdle
GbfsInit == InitGbfs /\ ExtraIdle
SanitizeInit == InitSanitize /\ ScrapeIdle /\ SaveIdle
ScrapeInit == InitScrape /\ SanitizeIdle /\ SaveIdle
SaveInit == InitSave /\ SanitizeIdle /\ ScrapeIdle
PipelineInit == InitPipeline /\ ExtraIdle
SpecCombine == CombineInit /\ [][NextCombine]_vars
SpecDownload == DownloadInit /\ [][NextDownload]_vars
SpecRestore == RestoreInit /\ [][NextRestore]_vars
SpecGbfs == GbfsInit /\ [][NextGbfs]_vars
SpecSanitize == SanitizeInit /\ [][NextSanitize]_vars
SpecScrape == ScrapeInit /\ [][NextScrape]_vars
SpecSave == SaveInit /\ [][NextSave]_vars
SpecPipeline == PipelineInit /\ [][NextPipeline]_vars

\* ------------------------------------------------------------------
\* Properties of combine_trip_data
\* ------------------------------------------------------------------
CombineDone == op = "combine" /\ cOutcome \in {"returned", "raised"}

\* the file at a path cannot be read
ReadFails(file_path) == ~read_trip_data_file(file_path, disk[file_path]).ok

NothingReadable ==
    \A i \in 1..Len(file_paths) : ReadFails(file_paths[i])

\* C1: combine_trip_data raises DataProcessorError if and only if the list
\* is empty or every file failed to be read; in every other case it returns
\* a dataset, whatever step failed for a single file.
C1_RaisesIffNothingRead ==
    CombineDone =>
        IF file_paths = <<>> \/ NothingReadable
        THEN cOutcome = "raised" /\ cExc = DataProcessorError
        ELSE cOutcome = "returned"

\* the rows of the readable files of a list, in list order, each carrying
\* the name of its file
RECURSIVE RowsOfReadable(_)
RowsOfReadable(paths) ==
    IF paths = <<>> THEN <<>>
    ELSE LET r == read_trip_data_file(Head(paths), disk[Head(paths)])
             rows == IF r.ok
                     THEN [i \in 1..Len(r.df.rows) |->
                              [origin |-> Head(paths), line |-> i,
                               source_file |-> PathName(Head(paths))]]
                     ELSE <<>>
         IN  rows \o RowsOfReadable(Tail(paths))

\* C2: for a list with some corrupt files and at least one readable file,
\* combine_trip_data returns exactly the rows of the readable files in list
\* order, each row carrying its file's name in source_file.
C2_RowsOfReadableFilesInOrder ==
    ( /\ CombineDone
      /\ \E i \in 1..Len(file_paths) : ReadFails(file_paths[i])
      /\ \E i \in 1..Len(file_paths) : ~ReadFails(file_paths[i]) )
    => /\ cOutcome = "returned"
       /\ combined_df.rows = RowsOfReadable(file_paths)

\* ------------------------------------------------------------------
\* Properties of download_all_trip_data
\* ------------------------------------------------------------------
\* the paths a run's log accounts for: skipped as present, or downloaded
RECURSIVE PathsOfLog(_)
PathsOfLog(log) ==
    IF log = <<>> THEN <<>>
    ELSE (IF Head(log).event \in {"skip", "ok"} THEN <<Head(log).filename>>
          ELSE <<>>) \o PathsOfLog(Tail(log))

\* the descriptors were visited in discovery order and the list holds the
\* path of each one found present or downloaded, in that order
VisitedInOrder ==
    (op = "download" /\ dOutcome = "returned") =>
        /\ Len(dLog) = Len(data_files)
        /\ \A i \in 1..Len(dLog) : dLog[i].filename = data_files[i].filename
        /\ downloaded_files = PathsOfLog(dLog)

\* C3: download_all_trip_data visits the descriptors in order and returns
\* the paths of those that were present or were downloaded; a failed
\* download contributes no path, and when every download fails and nothing
\* was in the output directory the result is the empty list.
C3_ReturnsPresentOrDownloaded ==
    /\ VisitedInOrder
    /\ ( /\ op = "download"
         /\ dOutcome = "returned"
         /\ \A f \in Filenames : dStartDir[f] = "absent"
         /\ \A i \in 1..Len(dLog) : dLog[i].event # "ok" )
       => downloaded_files = <<>>

\* C4: no path a run returns refers to a file that is a partial write.
C4_NoPartialFileReturned ==
    (op = "download" /\ dOutcome = "returned") =>
        \A i \in 1..Len(downloaded_files) :
            outDir[downloaded_files[i]] # "partial"

\* ------------------------------------------------------------------
\* Properties of restore_trip_data_from_bundle
\* ------------------------------------------------------------------
\* the last call got as far as opening an archive
Extracting == op = "restore" /\ rLast.triggered /\ rLast.opened # "none"

\* the files an archive stores under data/trip_data/raw, as paths relative
\* to it, and those of them that are CSV files
ArchiveFilesUnderRaw(id) ==
    { SubSeq(m.filename, 4, Len(m.filename)) :
        m \in { ArchiveMembers(id)[k] : k \in
                  { j \in 1..Len(ArchiveMembers(id)) :
                      /\ ~ArchiveMembers(id)[j].is_dir
                      /\ Len(ArchiveMembers(id)[j].filename) > 3
                      /\ ArchiveMembers(id)[j].filename[1] = "data"
                      /\ ArchiveMembers(id)[j].filename[2] = "trip_data"
                      /\ ArchiveMembers(id)[j].filename[3] = "raw" } } }

ArchiveCsvs(id) ==
    { p \in ArchiveFilesUnderRaw(id) :
        NameSuffix(p[Len(p)]) \in {".csv", ".CSV"} }

IsSortedList(paths) ==
    \A i, j \in 1..Len(paths) : i < j => PathLess(paths[i], paths[j])

ListsExactly(paths, S) ==
    /\ Len(paths) = Cardinality(S)
    /\ {paths[i] : i \in 1..Len(paths)} = S

\* C5: once CSV files are present, in particular after a call that returned
\* successfully, a further call performs no extraction and returns the same
\* list as the call before it.
C5_SecondCallIsNoOp ==
    (op = "restore" /\ rCalls >= 2 /\ rPrev.outcome = "returned") =>
        /\ rOutcome = "returned"
        /\ ~rLast.triggered
        /\ rResult = rPrev.result

\* what an extraction leaves in the raw directory: the archive's files
\* under the prefix, at their relative paths, and nothing else changed
WritesOnlyPrefixFiles ==
    /\ \A p \in ArchiveFilesUnderRaw(rLast.opened) :
           p \in RelPaths /\ rawFiles[p] = rLast.opened
    /\ \A p \in RelPaths \ ArchiveFilesUnderRaw(rLast.opened) :
           rawFiles[p] = rLast.filesBefore[p]

\* how deep below raw_dir the path is after each of its segments; a ".."
\* segment goes one directory up
RECURSIVE DepthsOf(_, _)
DepthsOf(path, depth) ==
    IF path = <<>> THEN {depth}
    ELSE {depth} \cup DepthsOf(Tail(path),
                               IF Head(path) = ".." THEN depth - 1
                               ELSE depth + 1)

\* the file at the path lies inside raw_dir
LiesInside(path) == \A d \in DepthsOf(path, 0) : d >= 0

\* C6: a triggered call with an available bundle, read for an archive that
\* stores at least one CSV file under the prefix, returns exactly the
\* sorted list of those CSV files, each written below the raw directory at
\* its path relative to the prefix; entries outside the prefix and
\* directory entries create no file and appear in no result.
C6_ReturnsArchiveCsvs ==
    (Extracting /\ ArchiveCsvs(rLast.opened) # {}) =>
        /\ rOutcome = "returned"
        /\ ListsExactly(rResult, ArchiveCsvs(rLast.opened))
        /\ IsSortedList(rResult)
        /\ WritesOnlyPrefixFiles
        /\ \A i \in 1..Len(rLast.written) : LiesInside(rLast.written[i])

\* a path of the raw directory that is a file with a .csv suffix
IsCsvFile(path) ==
    /\ path \in RelPaths
    /\ rawFiles[path] # "absent"
    /\ NameSuffix(path[Len(path)]) \in {".csv", ".CSV"}

\* C7: every successful return is a non-empty sorted list of paths of CSV
\* files, and a call that extracted fails with the extraction error exactly
\* when no CSV file was extracted and the re-scan finds no CSV file.
C7_NeverEmptyOnlyCsvFiles ==
    /\ (op = "restore" /\ rOutcome = "returned") =>
          /\ rResult # <<>>
          /\ IsSortedList(rResult)
          /\ \A i \in 1..Len(rResult) : IsCsvFile(rResult[i])
    /\ Extracting =>
          ( (rOutcome = "raised" /\ rExc = "RuntimeError")
            <=> ~\E p \in RelPaths : IsCsvFile(p) /\ (Len(p) = 1 \/ p \in
                     {rLast.written[i] : i \in 1..Len(rLast.written)}) )

\* where _resolve_volume_root must put the volume root of each raw_dir
VolumeRootOf(dir) ==
    CASE dir = <<"vol", "trip_data", "raw">> -> <<"vol">>
      [] dir = <<"vol", "raw">> -> <<>>
      [] dir = <<"raw">> -> <<>>

\* C8: a triggered call takes the archive staged at the volume root and
\* then neither reads nor copies the local bundle; without a staged copy
\* it copies the local bundle to the volume root and uses the copy; with
\* neither it raises FileNotFoundError and has extracted nothing.  The
\* local bundle is never modified.
C8_ArchiveLocation ==
    (op = "restore" /\ rLast.triggered) =>
        LET root == VolumeRootOf(raw_dir)
            staged == rLast.zipsBefore[root]
            local == rLast.zipsBefore[BundleDir]
        IN  /\ zips[BundleDir] = local
            /\ staged # "none" =>
                  /\ rLast.opened = staged
                  /\ ~rLast.copied /\ ~rLast.readLocal
                  /\ zips = rLast.zipsBefore
            /\ (staged = "none" /\ local # "none") =>
                  /\ rLast.copied
                  /\ zips = [rLast.zipsBefore EXCEPT ![root] = local]
                  /\ rLast.opened = local
            /\ (staged = "none" /\ local = "none") =>
                  /\ rOutcome = "raised" /\ rExc = "FileNotFoundError"
                  /\ rawFiles = rLast.filesBefore
                  /\ zips = rLast.zipsBefore

\* the local bundle was copied to the volume root two levels up while
\* another archive lay one level up
C8_Witness ==
    /\ op = "restore"
    /\ raw_dir = <<"vol", "trip_data", "raw">>
    /\ rLast.triggered /\ rLast.copied
    /\ rLast.zipsBefore[<<>>] # "none"
    /\ zips[<<"vol">>] = zips[BundleDir]
    /\ rOutcome = "returned"

C10_LoadOnce ==
    op = "gbfs" =>
        /\ gReloads = 0
        /\ feed_urls \in {None, gFirst}
        /\ (gFirst # None /\ gLast.call = "get_feeds") =>
               gLast.ok /\ gLast.urls = gFirst.urls
        /\ (gFirst # None /\ gLast.call = "get_feed"
              /\ gLast.fetched # "none") =>
               gLast.fetched = gFirst.urls[gLast.feed_name]

\* get_feeds answered from the cache, without a request, while the
\* discovery URL is down
C10_Witness ==
    /\ op = "gbfs"
    /\ gCalls = 3
    /\ gFirst # None
    /\ server.kind = "down"
    /\ gLast.call = "get_feeds" /\ gLast.ok
    /\ gRequests = <<>>

\* the URLs some discovery document lists under a name
ListedUrls(feed_name) ==
    UNION { { a.feeds[i].url : i \in { j \in 1..Len(a.feeds) :
                                          a.feeds[j].name = feed_name } } :
            a \in {x \in ServerAnswers : x.kind = "ok"} }

\* the requests of the last call that went to a feed's own URL
FeedRequests ==
    { i \in 1..Len(gRequests) : gRequests[i] # DiscoveryUrl }

\* C11: get_feed of a name the discovery document does not list raises
\* GBFSClientError "not found" and requests no feed; get_feed of a listed
\* name requests exactly the URL listed for that name.
C11_UnknownFeedNotFound ==
    (op = "gbfs" /\ gLast.call = "get_feed" /\ gLast.loaded) =>
        /\ feed_urls # None
        /\ gLast.feed_name \notin DOMAIN feed_urls.urls =>
               /\ ~gLast.ok
               /\ gLast.exc = GBFSClientError
               /\ gLast.msg = "not found"
               /\ gLast.fetched = "none"
               /\ FeedRequests = {}
        /\ gLast.feed_name \in DOMAIN feed_urls.urls =>
               /\ gLast.fetched = feed_urls.urls[gLast.feed_name]
               /\ gLast.fetched \in ListedUrls(gLast.feed_name)
               /\ Cardinality(FeedRequests) = 1
               /\ gRequests[Len(gRequests)] = gLast.fetched

\* an unlisted name was asked of a client that had just loaded the
\* discovery document
C11_Witness ==
    /\ op = "gbfs"
    /\ gLast.call = "get_feed"
    /\ gLast.feed_name = "nonexistent_feed"
    /\ gLast.msg = "not found"
    /\ gRequests = <<DiscoveryUrl>>

\* the last call was one of the two optional-feed methods
OptionalCall ==
    op = "gbfs" /\ gLast.call \in {"get_system_alerts", "get_free_bike_status"}

\* C12: get_system_alerts and get_free_bike_status return the empty
\* default when the feed is absent from the discovery listing, and only
\* then; a failure to fetch or parse the discovery document or the listed
\* feed surfaces as GBFSClientError.
C12_DefaultOnlyForMissingFeed ==
    OptionalCall =>
        /\ gLast.defaulted <=> (gLast.loaded /\ ~gLast.listed)
        /\ ~gLast.loaded => (~gLast.ok /\ gLast.exc = GBFSClientError)
        /\ (gLast.listed /\ gLast.msg # "none") =>
               (~gLast.ok /\ gLast.exc = GBFSClientError)

\* ------------------------------------------------------------------
\* Properties of the column-name step
\* ------------------------------------------------------------------
LowerLetters ==
    {"a", "b", "c", "d", "e", "f", "g", "h", "i", "j", "k", "l", "m", "n",
     "o", "p", "q", "r", "s", "t", "u", "v", "w", "x", "y", "z"}
Digits == {"0", "1", "2", "3", "4", "5", "6", "7", "8", "9"}

\* a character of [a-z0-9_]
IsWordChar(c) == c \in LowerLetters \cup Digits \cup {"_"}

\* every run of characters outside [a-z0-9_] replaced by one underscore
RECURSIVE CollapseRuns(_, _)
CollapseRuns(s, inRun) ==
    IF s = <<>> THEN <<>>
    ELSE IF IsWordChar(Head(s))
         THEN <<Head(s)>> \o CollapseRuns(Tail(s), FALSE)
         ELSE (IF inRun THEN <<>> ELSE <<"_">>) \o CollapseRuns(Tail(s), TRUE)

RECURSIVE LStripUnderscores(_)
LStripUnderscores(s) ==
    IF s # <<>> /\ Head(s) = "_" THEN LStripUnderscores(Tail(s)) ELSE s

RECURSIVE RStripUnderscores(_)
RStripUnderscores(s) ==
    IF s # <<>> /\ s[Len(s)] = "_"
    THEN RStripUnderscores(SubSeq(s, 1, Len(s) - 1)) ELSE s

\* the sanitization the claim describes
SanitizedAsStated(name) ==
    LET collapsed == CollapseRuns(StrStrip(StrLower(name)), FALSE)
        stripped == RStripUnderscores(LStripUnderscores(collapsed))
    IN  IF stripped = <<>> THEN <<"c", "o", "l", "u", "m", "n">>
        ELSE IF Head(stripped) \in Digits THEN <<"_">> \o stripped
        ELSE stripped

\* C13: the name a file's column gets when the file is normalized is the
\* described function of the source name: lower-case, trim, runs outside
\* [a-z0-9_] to one underscore, underscores stripped at both ends, an
\* underscore before a leading digit, "column" for the empty result.
C13_SanitizedAsStated ==
    (op = "sanitize" /\ hState = "normalized") =>
        hOut = SanitizedAsStated(hName)

\* ------------------------------------------------------------------
\* Properties of read_trip_data_file
\* ------------------------------------------------------------------
\* the path holds a CSV file whose bytes decode as Latin-1 only
IsLatin1Csv(file_path) ==
    /\ SuffixLower(file_path.suffix) # ".zip"
    /\ disk[file_path].kind = "csv"
    /\ disk[file_path].encoding = "latin-1"

\* the loop has appended a frame holding all rows of the file
RowsLoaded(file_path) ==
    \E k \in 1..Len(all_dataframes) :
        /\ Len(all_dataframes[k].rows) = disk[file_path].nrows
        /\ \A j \in 1..Len(all_dataframes[k].rows) :
               all_dataframes[k].rows[j].origin = file_path

\* C14: a CSV file invalid as UTF-8 and valid as Latin-1 is read through
\* the fallback and yields all of its rows; a CSV read fails only after
\* UTF-8 and then Latin-1 were tried.
C14_Latin1Fallback ==
    op = "combine" =>
        \A i \in 1..Len(file_paths) :
            i < cI =>
                LET r == read_trip_data_file(file_paths[i], disk[file_paths[i]])
                IN  /\ IsLatin1Csv(file_paths[i]) => RowsLoaded(file_paths[i])
                    /\ (~r.ok /\ r.encodings # <<>>) =>
                           r.encodings = <<"utf-8", "latin-1">>

\* ------------------------------------------------------------------
\* Properties of get_available_data_files
\* ------------------------------------------------------------------
\* the anchors of the page the function takes for data links, in document
\* order
MatchingLinks == SelectSeq(page.links, LooksLikeData)

\* the month and year the claim assigns to a matching anchor: from the
\* link text, else from the digits of the URL, else Unknown
MonthYearAsStated(link, file) ==
    IF TextMonthYear(link.text).found
    THEN /\ file.month = TextMonthYear(link.text).month
         /\ file.year = TextMonthYear(link.text).year
    ELSE IF link.digits.found
         THEN IntOf(link.digits.month_num) \in 1..12 =>
                 /\ file.month = month_names[IntOf(link.digits.month_num)]
                 /\ file.year = link.digits.year
         ELSE file.month = "Unknown" /\ file.year = "Unknown"

\* C15: get_available_data_files either returns one descriptor per
\* matching anchor, in document order, with month and year from the link
\* text, else the URL digits, else Unknown (the empty list when no anchor
\* matches), or raises MobiDataDownloaderError; no other exception
\* reaches the caller.
C15_ListOrTypedError ==
    (op = "scrape" /\ sOutcome # "idle") =>
        \/ /\ sOutcome = "returned"
           /\ page.served
           /\ Len(sResult) = Len(MatchingLinks)
           /\ \A i \in 1..Len(sResult) :
                  /\ sResult[i].link_text = MatchingLinks[i].text
                  /\ sResult[i].url = DownloadUrl(MatchingLinks[i])
                  /\ MonthYearAsStated(MatchingLinks[i], sResult[i])
        \/ /\ sOutcome = "raised"
           /\ sExc = MobiDataDownloaderError

\* ------------------------------------------------------------------
\* Properties of save_to_parquet
\* ------------------------------------------------------------------
\* C16: save_to_parquet returns the output path with the file written, or
\* fails with DataProcessorError, also when the parent directory cannot be
\* created; no other exception reaches the caller.
C16_SaveErrorIsTyped ==
    (op = "save" /\ vPc \in {"returned", "raised"}) =>
        \/ vPc = "returned" /\ vFile = "written" /\ vParent = "dir"
        \/ vPc = "raised" /\ vExc = DataProcessorError

\* ------------------------------------------------------------------
\* Where extraction writes
\* ------------------------------------------------------------------
\* C18: every file an extraction writes lies inside the destination
\* directory, also for an archive whose member names have ".." segments
\* after the prefix.
C18_WritesStayInside ==
    op = "restore" =>
        /\ \A i \in 1..Len(rLast.written) : LiesInside(rLast.written[i])
        /\ \A p \in RelPaths :
               rawFiles[p] # rLast.filesBefore[p] => LiesInside(p)

\* ------------------------------------------------------------------
\* Properties of the feed-URL cache after a failed load
\* ------------------------------------------------------------------
\* the mappings a discovery document with at least one feed yields
FullMappings ==
    { FeedDict(a.feeds) :
        a \in { x \in ServerAnswers : x.kind = "ok" /\ x.feeds # <<>> } }

\* C19: a call whose discovery load failed leaves the cache unset, a
\* call that finds the cache unset requests the discovery URL first, and
\* the cache never holds an empty or partial mapping.
C19_FailedLoadLeavesCacheUnset ==
    op = "gbfs" =>
        /\ (gLast.call # "none" /\ ~gLast.loaded) =>
               /\ gLast.unsetBefore
               /\ feed_urls = None
               /\ gRequests = <<DiscoveryUrl>>
        /\ (gLast.call # "none" /\ gLast.unsetBefore) =>
               /\ gRequests # <<>>
               /\ gRequests[1] = DiscoveryUrl
        /\ (gLast.call # "none" /\ gLast.unsetBefore /\ gLast.loaded) =>
               feed_urls # None
        /\ feed_urls # None =>
               /\ feed_urls.urls \in FullMappings
               /\ DOMAIN feed_urls.urls # {}

\* the first call failed on the discovery load, the second one requested
\* the discovery URL again and loaded the mapping
C19_Witness ==
    /\ op = "gbfs"
    /\ gCalls = 2
    /\ gLast.unsetBefore
    /\ gLast.loaded
    /\ feed_urls # None
    /\ gRequests # <<>>
    /\ gRequests[1] = DiscoveryUrl

\* ------------------------------------------------------------------
\* Properties of the download followed by the restoration
\* ------------------------------------------------------------------
\* the restoration has been called on the directory of the download
Restored == op = "pipeline" /\ rCalls = 1

\* the files the download left in the raw directory
LeftByDownload == { f \in Filenames : outDir[f] # "absent" }

\* some descriptor yielded a file and the download of another failed
PartialFailure ==
    /\ dOutcome = "returned"
    /\ \E i \in 1..Len(dLog) : dLog[i].event \in {"ok", "skip"}
    /\ \E i \in 1..Len(dLog) : dLog[i].event \in {"request", "stream"}

\* C17 as stated: after a partial failure the restoration extracts the
\* bundle, so its result holds the CSV files of the archive.
C17_RestoresOnPartialFailure ==
    (Restored /\ PartialFailure /\ zips[BundleDir] # "none") =>
        /\ rLast.triggered
        /\ rLast.opened # "none"
        /\ ArchiveCsvs(rLast.opened) \subseteq
               { rResult[i] : i \in 1..Len(rResult) }

\* C17, amended: the restoration extracts the bundle only when the
\* download left no CSV file in the raw directory; when it left at least
\* one, as after a partial failure, the restoration extracts nothing and
\* returns exactly the files the download left.
C17_RestoresOnlyWhenNothingLeft ==
    Restored =>
        /\ LeftByDownload # {} =>
               /\ ~rLast.triggered
               /\ rOutcome = "returned"
               /\ ListsExactly(rResult, { <<f>> : f \in LeftByDownload })
               /\ rawFiles = rLast.filesBefore
               /\ zips = rLast.zipsBefore
        /\ LeftByDownload = {} =>
               /\ rLast.triggered
               /\ rOutcome = "returned" =>
                      ListsExactly(rResult, ArchiveCsvs(rLast.opened))
               /\ rOutcome = "raised" => zips[BundleDir] = "none"

\* one download succeeded, one failed, and the restoration returned the
\* one file without opening the bundle
C17_Witness ==
    /\ Restored
    /\ PartialFailure
    /\ zips[BundleDir] = "spec"
    /\ ~rLast.triggered
    /\ Len(dLog) = 2
    /\ dLog[1].event = "ok" /\ dLog[2].event = "request"
    /\ rResult = << <<"mobi_2023_January.csv">> >>
====
